---- MODULE Spec2Model ----
(***************************************************************************)
(* A model of spellcast (src/spellcast.py): the two backends that turn a   *)
(* checker's reply into mistakes (aspell_report_file and                   *)
(* languagetool_report_file), the two renderers (output_mistake_list with  *)
(* pretty_print_mistake, output_augmented_input) and the loop of main over *)
(* the files.                                                              *)
(*                                                                         *)
(* A Python string is a sequence of one-character strings, a list is a     *)
(* sequence, a dict is a function on its keys.  An exception is the value   *)
(* Raise (of a function) or the state "raised" (of a loop).                *)
(***************************************************************************)
EXTENDS Integers, Sequences, FiniteSets, TLC

VARIABLES
    \* aspell_report_file
    aspell_src,        \* the replies the checker was asked to give (ghost)
    aspell_lines,      \* out.splitlines()
    as_pos,            \* index of the reply line the for loop is at
    line_number,
    as_mistakes,       \* what the generator has yielded so far
    as_state,          \* "running", "done" or "raised"
    \* languagetool_report_file
    lt_lines,          \* lines
    lt_matches,        \* lt_result['matches']
    acc_line_lengths,
    total_line_len,
    full_input_buf,
    lt_pos,            \* index of the match the for loop is at
    lt_mistakes,       \* what the generator has yielded so far
    lt_state,          \* "start", "running" or "done"
    \* pretty_print_mistake, the suggestions
    suggestions,       \* len(s) of every s of mistake['suggestions']
    sugg_pos,          \* index of the suggestion the for loop is at
    sugg_cur_width,
    is_first,
    sugg_line,         \* what has been printed since the last line break
    sugg_out,          \* the lines printed
    sugg_state,        \* "start", "running" or "done"
    \* output_mistake_list and output_augmented_input
    rn_lines,          \* lines
    rn_mistakes,       \* mistakes
    rn_out,            \* what each print has written, in order
    rn_state,          \* "start", "list", "augmented" or "raised"
    \* main
    files,             \* args.files: what each file is and what checking it does
    exit_code,         \* args.exit_code
    file_pos,          \* index of the file the for loop is at
    count,
    pdfproc,           \* per file: "none", "running" or "released"
    file_handle,       \* per file: "none", "open" or "closed"
    visited,           \* the files check_file has been called for
    rendered,          \* the files whose output_function has returned
    main_state         \* "loop", "check", "release", "returned" or "raised"

asVars == <<aspell_src, aspell_lines, as_pos, line_number, as_mistakes, as_state>>

ltVars == <<lt_lines, lt_matches, acc_line_lengths, total_line_len, full_input_buf,
            lt_pos, lt_mistakes, lt_state>>

sgVars == <<suggestions, sugg_pos, sugg_cur_width, is_first, sugg_line, sugg_out,
            sugg_state>>

rnVars == <<rn_lines, rn_mistakes, rn_out, rn_state>>

mnVars == <<files, exit_code, file_pos, count, pdfproc, file_handle, visited, rendered,
            main_state>>

vars == <<asVars, ltVars, sgVars, rnVars, mnVars>>

\* the variables of the functions a specification does not run
AspellIdle ==
    /\ aspell_src = <<>>
    /\ aspell_lines = <<>>
    /\ as_pos = 1
    /\ line_number = 0
    /\ as_mistakes = <<>>
    /\ as_state = "idle"

LtIdle ==
    /\ lt_lines = <<>>
    /\ lt_matches = <<>>
    /\ acc_line_lengths = <<>>
    /\ total_line_len = 0
    /\ full_input_buf = <<>>
    /\ lt_pos = 1
    /\ lt_mistakes = <<>>
    /\ lt_state = "idle"

SuggIdle ==
    /\ suggestions = <<>>
    /\ sugg_pos = 1
    /\ sugg_cur_width = 0
    /\ is_first = TRUE
    /\ sugg_line = <<>>
    /\ sugg_out = <<>>
    /\ sugg_state = "idle"

RenderIdle ==
    /\ rn_lines = <<>>
    /\ rn_mistakes = <<>>
    /\ rn_out = <<>>
    /\ rn_state = "idle"

MainIdle ==
    /\ files = <<>>
    /\ exit_code = FALSE
    /\ file_pos = 1
    /\ count = 0
    /\ pdfproc = <<>>
    /\ file_handle = <<>>
    /\ visited = {}
    /\ rendered = {}
    /\ main_state = "idle"

notAspell == <<ltVars, sgVars, rnVars, mnVars>>

notLt == <<asVars, sgVars, rnVars, mnVars>>

notSugg == <<asVars, ltVars, rnVars, mnVars>>

notRender == <<asVars, ltVars, sgVars, mnVars>>

notMain == <<asVars, ltVars, sgVars, rnVars>>

(***************************************************************************)
(* Python's str and list primitives                                        *)
(***************************************************************************)

\* what a function that raised gives
Raise == [raised |-> TRUE]

DigitChars == <<"0", "1", "2", "3", "4", "5", "6", "7", "8", "9">>

IsDigit(c) == \E d \in 1..10 : DigitChars[d] = c

DigitVal(c) == (CHOOSE d \in 1..10 : DigitChars[d] = c) - 1

RECURSIVE DigitsVal(_)
DigitsVal(s) ==
    IF s = <<>> THEN 0
    ELSE 10 * DigitsVal(SubSeq(s, 1, Len(s) - 1)) + DigitVal(s[Len(s)])

\* int(s) of a string without sign, blank or underscore: ValueError unless it
\* is a non-empty run of digits
PyIntRaises(s) == ~(s # <<>> /\ \A i \in 1..Len(s) : IsDigit(s[i]))

PyInt(s) == DigitsVal(s)

\* str(n), n >= 0
RECURSIVE PyStr(_)
PyStr(n) ==
    IF n < 10 THEN <<DigitChars[n + 1]>>
    ELSE PyStr(n \div 10) \o <<DigitChars[(n % 10) + 1]>>

\* s.find(sep), 1-based; 0 when sep does not occur
PyFind(s, sep) ==
    LET hits == {i \in 1..(Len(s) - Len(sep) + 1) : SubSeq(s, i, i + Len(sep) - 1) = sep}
    IN  IF hits = {} THEN 0 ELSE CHOOSE i \in hits : \A j \in hits : i <= j

\* s.split(sep)
RECURSIVE PySplit(_, _)
PySplit(s, sep) ==
    LET i == PyFind(s, sep)
    IN  IF i = 0 THEN <<s>>
        ELSE <<SubSeq(s, 1, i - 1)>> \o PySplit(SubSeq(s, i + Len(sep), Len(s)), sep)

\* sep.join(parts)
RECURSIVE PyJoin(_, _)
PyJoin(sep, parts) ==
    IF parts = <<>> THEN <<>>
    ELSE IF Len(parts) = 1 THEN parts[1]
    ELSE parts[1] \o sep \o PyJoin(sep, Tail(parts))

\* s[a:b] with 0 <= a, 0 <= b: the slice is clamped to the string
PySlice(s, a, b) ==
    LET lo == IF a > Len(s) THEN Len(s) ELSE a
        hi == IF b > Len(s) THEN Len(s) ELSE b
    IN  IF hi <= lo THEN <<>> ELSE SubSeq(s, lo + 1, hi)

\* every sequence over S of length at most n
SeqsUpTo(S, n) == UNION {[1..k -> S] : k \in 0..n}

(***************************************************************************)
(* Backend: aspell                                                         *)
(***************************************************************************)

\* the most reply lines of one run of the checker
MaxReplies == 3

AspellWords == {<<"a", "b">>, <<"c">>}

AspellOffsets == {2, 11}

\* a suggestion may hold a blank ("y z")
AspellSuggestions == {<< <<"x">> >>, << <<"x">>, <<"y", " ", "z">> >>}

\* the reply lines of the grammar, and what each stands for
GrammarReplies ==
    {[kind |-> k, word |-> <<>>, offset |-> 0, suggestions |-> <<>>] :
        k \in {"empty", "correct", "directive"}}
    \cup {[kind |-> "root", word |-> w, offset |-> 0, suggestions |-> <<>>] :
        w \in AspellWords}
    \cup {[kind |-> "miss", word |-> w, offset |-> o, suggestions |-> <<>>] :
        w \in AspellWords, o \in AspellOffsets}
    \cup {[kind |-> "guess", word |-> w, offset |-> o, suggestions |-> s] :
        w \in AspellWords, o \in AspellOffsets, s \in AspellSuggestions}

\* reply lines outside the grammar; word holds the line as sent
MalformedLines ==
    { <<"&", " ", "a", "b", " ", "1", " ", "2">>,                 \* no separator
      <<"&", " ", "a", "b", " ", "1", " ", "2", ":", "x">>,       \* ':' without ' '
      <<"&", " ", "a", "b", " ", "2", ":", " ", "x">>,            \* too few fields
      <<"&", " ", "a", "b", " ", "1", " ", "x", ":", " ", "x">>,  \* offset not a number
      <<"#", " ", "a", "b">>,                                     \* too few fields
      <<"#", " ", "a", "b", " ", "x">>,                           \* offset not a number
      <<"?", " ", "a", "b">>,                                     \* unknown marker
      <<"a", "b">> }                                              \* no marker

MalformedReplies ==
    {[kind |-> "malformed", word |-> t, offset |-> 0, suggestions |-> <<>>] :
        t \in MalformedLines}

\* the line the checker writes for a reply
ReplyText(r) ==
    CASE r.kind = "empty" -> <<>>
      [] r.kind = "correct" -> <<"*">>
      [] r.kind = "directive" -> <<"@", "(", "#", ")">>
      [] r.kind = "root" -> <<"+", " ">> \o r.word
      [] r.kind = "miss" -> <<"#", " ">> \o r.word \o <<" ">> \o PyStr(r.offset)
      [] r.kind = "guess" ->
            <<"&", " ">> \o r.word \o <<" ">> \o PyStr(Len(r.suggestions))
                \o <<" ">> \o PyStr(r.offset) \o <<":", " ">>
                \o PyJoin(<<",", " ">>, r.suggestions)
      [] OTHER -> r.word

\* a mistake whose offset keeps the column of the sentinel
parse_aspell_line_no_suggestion_sentinel(line) ==
    LET metadata == PySplit(line, <<" ">>)
    IN  IF Len(metadata) < 3 \/ PyIntRaises(metadata[3]) THEN Raise
        ELSE [raised |-> FALSE, word |-> metadata[2],
              offset |-> PyInt(metadata[3]), suggestions |-> <<>>]

parse_aspell_line_no_suggestion(line) ==
    LET metadata == PySplit(line, <<" ">>)
    IN  IF Len(metadata) < 2 THEN Raise                 \* metadata[1]: IndexError
        ELSE IF Len(metadata) < 3 THEN Raise            \* metadata[2]: IndexError
        ELSE IF PyIntRaises(metadata[3]) THEN Raise   \* int(): ValueError
        ELSE [raised |-> FALSE,
              word |-> metadata[2],
              offset |-> PyInt(metadata[3]) - 1,
              suggestions |-> <<>>]

parse_aspell_line_with_suggestions(line) ==
    LET metadata == PySplit(PySplit(line, <<":">>)[1], <<" ">>)
        parts == PySplit(line, <<":", " ">>)
    IN  IF Len(metadata) < 2 THEN Raise                 \* metadata[1]: IndexError
        ELSE IF Len(metadata) < 4 THEN Raise            \* metadata[3]: IndexError
        ELSE IF PyIntRaises(metadata[4]) THEN Raise   \* int(): ValueError
        ELSE IF Len(parts) < 2 THEN Raise               \* split(': ')[1]: IndexError
        ELSE [raised |-> FALSE,
              word |-> metadata[2],
              offset |-> PyInt(metadata[4]) - 1,
              suggestions |-> PySplit(parts[2], <<",", " ">>)]

\* the mistake dict with mistake['line'] set
WithLine(mistake, n) ==
    [word |-> mistake.word, offset |-> mistake.offset,
     suggestions |-> mistake.suggestions, line |-> n]

AspellInit ==
    /\ aspell_src \in SeqsUpTo(GrammarReplies \cup MalformedReplies, MaxReplies)
    /\ aspell_lines = [i \in 1..Len(aspell_src) |-> ReplyText(aspell_src[i])]
    /\ as_pos = 1
    /\ line_number = 0
    /\ as_mistakes = <<>>
    /\ as_state = "running"
    /\ LtIdle
    /\ SuggIdle
    /\ RenderIdle
    /\ MainIdle

AtReply == as_state = "running" /\ as_pos <= Len(aspell_lines)

aspell_report == aspell_lines[as_pos]

\* if aspell_report == '': line_number += 1; continue
AspellEmptyLine ==
    /\ AtReply
    /\ aspell_report = <<>>
    /\ line_number' = line_number + 1
    /\ as_pos' = as_pos + 1
    /\ UNCHANGED <<aspell_src, aspell_lines, as_mistakes, as_state>>
    /\ UNCHANGED notAspell

\* if aspell_report[0] in ('*', '@'): continue;  if aspell_report[0] == '+': continue
AspellSkipLine ==
    /\ AtReply
    /\ aspell_report # <<>>
    /\ aspell_report[1] \in {"*", "@", "+"}
    /\ as_pos' = as_pos + 1
    /\ UNCHANGED <<aspell_src, aspell_lines, line_number, as_mistakes, as_state>>
    /\ UNCHANGED notAspell

\* the '#' and the '&' branch: parse, set the line, yield
AspellYield(parsed) ==
    IF parsed.raised
    THEN /\ as_state' = "raised"
         /\ UNCHANGED <<aspell_src, aspell_lines, as_pos, line_number, as_mistakes>>
    ELSE /\ as_mistakes' = Append(as_mistakes, WithLine(parsed, line_number))
         /\ as_pos' = as_pos + 1
         /\ UNCHANGED <<aspell_src, aspell_lines, line_number, as_state>>

AspellMissLine ==
    /\ AtReply
    /\ aspell_report # <<>>
    /\ aspell_report[1] = "#"
    /\ AspellYield(parse_aspell_line_no_suggestion(aspell_report))
    /\ UNCHANGED notAspell

AspellGuessLine ==
    /\ AtReply
    /\ aspell_report # <<>>
    /\ aspell_report[1] = "&"
    /\ AspellYield(parse_aspell_line_with_suggestions(aspell_report))
    /\ UNCHANGED notAspell

\* no if of the loop body matches: the for loop goes on to the next line
AspellOtherLine ==
    /\ AtReply
    /\ aspell_report # <<>>
    /\ aspell_report[1] \notin {"*", "@", "+", "#", "&"}
    /\ as_pos' = as_pos + 1
    /\ UNCHANGED <<aspell_src, aspell_lines, line_number, as_mistakes, as_state>>
    /\ UNCHANGED notAspell

\* the for loop is over: the generator is exhausted
AspellReturn ==
    /\ as_state = "running"
    /\ as_pos > Len(aspell_lines)
    /\ as_state' = "done"
    /\ UNCHANGED <<aspell_src, aspell_lines, as_pos, line_number, as_mistakes>>
    /\ UNCHANGED notAspell

AspellNext ==
    \/ AspellEmptyLine
    \/ AspellSkipLine
    \/ AspellMissLine
    \/ AspellGuessLine
    \/ AspellOtherLine
    \/ AspellReturn

SpecAspell == AspellInit /\ [][AspellNext]_vars

(***************************************************************************)
(* What the replies of a run stand for, computed from the replies and not  *)
(* from their text.                                                        *)
(***************************************************************************)

RECURSIVE EmptyReplies(_)
EmptyReplies(src) ==
    IF src = <<>> THEN 0
    ELSE EmptyReplies(SubSeq(src, 1, Len(src) - 1))
            + (IF src[Len(src)].kind = "empty" THEN 1 ELSE 0)

RECURSIVE ExpectedMistakes(_)
ExpectedMistakes(src) ==
    IF src = <<>> THEN <<>>
    ELSE LET before == SubSeq(src, 1, Len(src) - 1)
             r == src[Len(src)]
         IN  IF r.kind \in {"miss", "guess"}
             THEN Append(ExpectedMistakes(before),
                         [word |-> r.word, offset |-> r.offset - 1,
                          suggestions |-> r.suggestions, line |-> EmptyReplies(before)])
             ELSE ExpectedMistakes(before)

InGrammar == \A i \in 1..Len(aspell_src) : aspell_src[i] \in GrammarReplies

\* C2: when every reply line is of the grammar, the run never raises and
\* the mistakes yielded after any number of reply lines are exactly one per
\* '#' or '&' line read so far, in reply order: line is the number of empty
\* reply lines before it, offset the reported offset minus 1, word the
\* reported word, suggestions [] for '#' and the list after ': ' for '&'.
C2_LineOrientedParsing ==
    (as_state # "idle" /\ InGrammar) =>
        /\ as_state # "raised"
        /\ as_mistakes = ExpectedMistakes(SubSeq(aspell_src, 1, as_pos - 1))

\* an empty reply line, then a '&' line with two suggestions at reported
\* offset 11 and a '#' line: two mistakes on line 1, the first at offset 10
C2_Witness ==
    /\ as_state = "done"
    /\ InGrammar
    /\ Len(aspell_src) = 3
    /\ aspell_src[1].kind = "empty"
    /\ aspell_src[2].kind = "guess"
    /\ aspell_src[3].kind = "miss"
    /\ Len(as_mistakes) = 2
    /\ as_mistakes[1].line = 1
    /\ as_mistakes[1].offset = 10
    /\ as_mistakes[1].suggestions = << <<"x">>, <<"y", " ", "z">> >>
    /\ as_mistakes[2].line = 1
    /\ as_mistakes[2].suggestions = <<>>

\* C9: a non-empty reply line outside the grammar ends the run in an error
\* at that line: the loop never goes past such a line.
C9_ProtocolErrorsSurface ==
    \A i \in 1..Len(aspell_src) :
        aspell_src[i].kind = "malformed" => as_pos <= i

(***************************************************************************)
(* Backend: languagetool                                                   *)
(***************************************************************************)

\* the most lines of a document and the most matches of a response
MaxLtLines == 2

MaxLtMatches == 2

LtLineSet ==
    { <<>>, <<"x">>, <<"a", "l", "p", "h", "a">>, <<"b", "e", "t", "a">> }

LtLengths == {1, 4}

\* len(l) + len('\n') of every line
RECURSIVE DocLength(_)
DocLength(lines) ==
    IF lines = <<>> THEN 0 ELSE Len(lines[1]) + 1 + DocLength(Tail(lines))

\* the matches of a response: spans of the buffer sent, '\n'.join(lines)
LtMatches(lines) ==
    SeqsUpTo({m \in [offset : 0..(DocLength(lines) - 1), length : LtLengths] :
                 m.offset + m.length <= DocLength(lines) - 1},
             MaxLtMatches)

\* a[i] of a list: a negative i counts from the end
PyIndex(a, i) == IF i < 0 THEN a[Len(a) + i + 1] ELSE a[i + 1]

\* bisect.bisect_left(a, x) of a sorted list: the insertion point before
\* every entry equal to x
bisect_left(a, x) ==
    CHOOSE i \in 0..Len(a) :
        /\ \A j \in 1..i : a[j] < x
        /\ \A j \in (i + 1)..Len(a) : a[j] >= x

\* the loop over the lines: acc_line_lengths after the last append
RECURSIVE AccLineLengths(_, _)
AccLineLengths(lines, total) ==
    IF lines = <<>> THEN <<total>>
    ELSE <<total>> \o AccLineLengths(Tail(lines), total + Len(lines[1]) + 1)

LtInit ==
    /\ lt_lines \in SeqsUpTo(LtLineSet, MaxLtLines)
    /\ lt_matches \in LtMatches(lt_lines)
    /\ acc_line_lengths = <<>>
    /\ total_line_len = 0
    /\ full_input_buf = <<>>
    /\ lt_pos = 1
    /\ lt_mistakes = <<>>
    /\ lt_state = "start"
    /\ AspellIdle
    /\ SuggIdle
    /\ RenderIdle
    /\ MainIdle

\* lines 95-103: the accumulated line lengths and the buffer sent
LtBoundaries ==
    /\ lt_state = "start"
    /\ acc_line_lengths' = AccLineLengths(lt_lines, 0)
    /\ total_line_len' = DocLength(lt_lines)
    /\ full_input_buf' = PyJoin(<<"\n">>, lt_lines)
    /\ lt_state' = "running"
    /\ UNCHANGED <<lt_lines, lt_matches, lt_pos, lt_mistakes>>
    /\ UNCHANGED notLt

\* the mistake of one match
LtMistake(m) ==
    LET offset == m.offset
        length == m.length
        line == bisect_left(acc_line_lengths, offset)
    IN  [line |-> line - 1,
         offset |-> offset - PyIndex(acc_line_lengths, line - 1),
         word |-> PySlice(full_input_buf, offset, offset + length),
         suggestions |-> <<>>]

\* one round of the loop over lt_result['matches']
LtYield ==
    /\ lt_state = "running"
    /\ lt_pos <= Len(lt_matches)
    /\ lt_mistakes' = Append(lt_mistakes, LtMistake(lt_matches[lt_pos]))
    /\ lt_pos' = lt_pos + 1
    /\ UNCHANGED <<lt_lines, lt_matches, acc_line_lengths, total_line_len,
                   full_input_buf, lt_state>>
    /\ UNCHANGED notLt

LtReturn ==
    /\ lt_state = "running"
    /\ lt_pos > Len(lt_matches)
    /\ lt_state' = "done"
    /\ UNCHANGED <<lt_lines, lt_matches, acc_line_lengths, total_line_len,
                   full_input_buf, lt_pos, lt_mistakes>>
    /\ UNCHANGED notLt

LtNext ==
    \/ LtBoundaries
    \/ LtYield
    \/ LtReturn

SpecLT == LtInit /\ [][LtNext]_vars

\* the boundary value of line k (0-based): the length, one newline per line,
\* of all lines before it
LineStart(lines, k) == DocLength(SubSeq(lines, 1, k))

\* C1: a match whose flat offset is the boundary value of line k is
\* reported on line k at offset 0, never on line k-1.
C1_TieBreak ==
    \A j \in 1..Len(lt_mistakes) :
        \A k \in 0..(Len(lt_lines) - 1) :
            lt_matches[j].offset = LineStart(lt_lines, k) =>
                /\ lt_mistakes[j].line = k
                /\ lt_mistakes[j].offset = 0

\* C6: for a non-empty document and a match at flat offset o, 0 <= o < total
\* length, the mistake has 0 <= line < n, offset >= 0 and
\* boundary[line] + offset = o.
C6_PositionValid ==
    \A j \in 1..Len(lt_mistakes) :
        /\ 0 <= lt_mistakes[j].line
        /\ lt_mistakes[j].line < Len(lt_lines)
        /\ lt_mistakes[j].offset >= 0
        /\ LineStart(lt_lines, lt_mistakes[j].line) + lt_mistakes[j].offset
                = lt_matches[j].offset

(***************************************************************************)
(* pretty_print_mistake: the suggestion block                              *)
(*                                                                         *)
(* A printed line is the sequence of its pieces, each with the columns it  *)
(* takes; a suggestion s is its len(s).                                    *)
(***************************************************************************)

sugg_width == 80

\* len(sugg_prefix), sugg_prefix = '  Suggestions: '
sugg_prefix_len == 15

\* the most suggestions of a mistake
MaxSuggestions == 3

SuggLens == {1, 30, 33, 65, 66}

Piece(kind, width) == [kind |-> kind, width |-> width]

SuggInit ==
    /\ suggestions \in SeqsUpTo(SuggLens, MaxSuggestions)
    /\ sugg_pos = 1
    /\ sugg_cur_width = 0
    /\ is_first = TRUE
    /\ sugg_line = <<>>
    /\ sugg_out = <<>>
    /\ sugg_state = "start"
    /\ AspellIdle
    /\ LtIdle
    /\ RenderIdle
    /\ MainIdle

\* if not mistake['suggestions']: return
SuggNone ==
    /\ sugg_state = "start"
    /\ suggestions = <<>>
    /\ sugg_state' = "done"
    /\ UNCHANGED <<suggestions, sugg_pos, sugg_cur_width, is_first, sugg_line, sugg_out>>
    /\ UNCHANGED notSugg

\* print(sugg_prefix, end='')
SuggLabel ==
    /\ sugg_state = "start"
    /\ suggestions # <<>>
    /\ sugg_cur_width' = sugg_prefix_len
    /\ sugg_line' = <<Piece("label", sugg_prefix_len)>>
    /\ sugg_state' = "running"
    /\ UNCHANGED <<suggestions, sugg_pos, is_first, sugg_out>>
    /\ UNCHANGED notSugg

AtSuggestion == sugg_state = "running" /\ sugg_pos <= Len(suggestions)

\* whether the loop body breaks the line before s
SuggBreaks(cur_width, s, first) == cur_width + 2 + s > sugg_width /\ ~first

\* the if branch: ',' ends the line, the next one starts under the label
SuggWrap ==
    /\ AtSuggestion
    /\ LET s == suggestions[sugg_pos]
       IN  /\ SuggBreaks(sugg_cur_width, s, is_first)
           /\ sugg_out' = Append(sugg_out, Append(sugg_line, Piece("comma", 1)))
           /\ sugg_line' = <<Piece("indent", sugg_prefix_len), Piece("suggestion", s)>>
           /\ sugg_cur_width' = sugg_prefix_len + s
    /\ is_first' = FALSE
    /\ sugg_pos' = sugg_pos + 1
    /\ UNCHANGED <<suggestions, sugg_state>>
    /\ UNCHANGED notSugg

\* the elif branch: ', ' and the suggestion on the same line
SuggSeparate ==
    /\ AtSuggestion
    /\ LET s == suggestions[sugg_pos]
       IN  /\ ~SuggBreaks(sugg_cur_width, s, is_first)
           /\ ~is_first
           /\ sugg_line' = sugg_line \o <<Piece("separator", 2), Piece("suggestion", s)>>
           /\ sugg_cur_width' = sugg_cur_width + 2 + s
    /\ is_first' = FALSE
    /\ sugg_pos' = sugg_pos + 1
    /\ UNCHANGED <<suggestions, sugg_out, sugg_state>>
    /\ UNCHANGED notSugg

\* neither branch: the first suggestion follows the label
SuggFirst ==
    /\ AtSuggestion
    /\ is_first
    /\ LET s == suggestions[sugg_pos]
       IN  /\ sugg_line' = Append(sugg_line, Piece("suggestion", s))
           /\ sugg_cur_width' = sugg_cur_width + s
    /\ is_first' = FALSE
    /\ sugg_pos' = sugg_pos + 1
    /\ UNCHANGED <<suggestions, sugg_out, sugg_state>>
    /\ UNCHANGED notSugg

\* print('\n'): the line ends and an empty line follows
SuggEnd ==
    /\ sugg_state = "running"
    /\ sugg_pos > Len(suggestions)
    /\ sugg_out' = sugg_out \o <<sugg_line, <<>>>>
    /\ sugg_line' = <<>>
    /\ sugg_state' = "done"
    /\ UNCHANGED <<suggestions, sugg_pos, sugg_cur_width, is_first>>
    /\ UNCHANGED notSugg

SuggNext ==
    \/ SuggNone
    \/ SuggLabel
    \/ SuggWrap
    \/ SuggSeparate
    \/ SuggFirst
    \/ SuggEnd

SpecSugg == SuggInit /\ [][SuggNext]_vars

\* the columns of a printed line
RECURSIVE LineWidth(_)
LineWidth(line) == IF line = <<>> THEN 0 ELSE line[1].width + LineWidth(Tail(line))

SuggestionsOn(line) == {i \in 1..Len(line) : line[i].kind = "suggestion"}

\* the line holds one suggestion, which does not fit beside the label or
\* the indentation
LoneOversized(line) ==
    /\ Cardinality(SuggestionsOn(line)) = 1
    /\ \A i \in SuggestionsOn(line) : sugg_prefix_len + line[i].width > sugg_width

\* C3: every printed line of the suggestion block is at most 80 columns
\* wide, unless it carries a single suggestion that does not fit by itself.
C3_SuggestionLinesFit ==
    \A i \in 1..Len(sugg_out) :
        LineWidth(sugg_out[i]) <= sugg_width \/ LoneOversized(sugg_out[i])

(***************************************************************************)
(* The renderers                                                           *)
(*                                                                         *)
(* What a print writes is a sequence of characters and markers; a marker,  *)
(* an escape sequence of several characters, is one element that is no     *)
(* character of a document.                                                *)
(***************************************************************************)

\* the most lines of a document and the most mistakes handed to a renderer
MaxRnLines == 2

MaxRnMistakes == 2

RnLineSet == { <<>>, <<"a", "b", "c", "d", "e", "f", "g">> }

\* offset and len(word) of a mistake
RnSpans == { <<0, 2>>, <<0, 5>>, <<2, 2>>, <<5, 2>>, <<5, 0>>, <<5, 5>>, <<8, 2>> }

\* a word of n characters
Word(n) == [i \in 1..n |-> "w"]

\* the mistakes a backend may hand over for a document: on a line of it or
\* on the line after its last
RnMistakeSet(lines) ==
    {[line |-> n, offset |-> sp[1], word |-> Word(sp[2]), suggestions |-> <<>>] :
        n \in 0..Len(lines), sp \in RnSpans}

\* '\033[1;31m' and '\033[0m'
HighlightOn == "ESC[1;31m"

HighlightOff == "ESC[0m"

IsMarker(t) == t \in {HighlightOn, HighlightOff}

file_name == <<"f">>

RenderInit ==
    /\ rn_lines \in SeqsUpTo(RnLineSet, MaxRnLines)
    /\ rn_mistakes \in SeqsUpTo(RnMistakeSet(rn_lines), MaxRnMistakes)
    /\ rn_out = <<>>
    /\ rn_state = "start"
    /\ AspellIdle
    /\ LtIdle
    /\ SuggIdle
    /\ MainIdle

\* the mistakes of `mistakes` that `keep` holds of, in order
RECURSIVE Select(_, _)
Select(mistakes, keep) ==
    IF mistakes = <<>> THEN <<>>
    ELSE (IF mistakes[1] \in keep THEN <<mistakes[1]>> ELSE <<>>)
            \o Select(Tail(mistakes), keep)

\* lines 188-193: the mistakes of every line that has some, in order
Line2Mistakes(mistakes) ==
    [n \in {mistakes[i].line : i \in 1..Len(mistakes)} |->
        Select(mistakes, {m \in {mistakes[i] : i \in 1..Len(mistakes)} : m.line = n})]

\* lines 202-204: of the mistakes at one offset, the last one
Offset2Mistake(mistakes) ==
    [o \in {mistakes[i].offset : i \in 1..Len(mistakes)} |->
        LET at == {i \in 1..Len(mistakes) : mistakes[i].offset = o}
        IN  mistakes[CHOOSE i \in at : \A j \in at : j <= i]]

\* the loop without the character: nothing of the line is written
RECURSIVE AugmentDropping(_, _, _, _)
AugmentDropping(text, offset, endoffset, offset2mistake) ==
    IF offset >= Len(text) THEN <<>>
    ELSE LET ends == offset = endoffset
             starts == offset \in DOMAIN offset2mistake
             next == IF starts THEN offset + Len(offset2mistake[offset].word)
                     ELSE IF ends THEN -1 ELSE endoffset
         IN  (IF ends THEN <<HighlightOff>> ELSE <<>>)
                \o (IF starts THEN <<HighlightOn>> ELSE <<text[offset + 1]>>)
                \o AugmentDropping(text, offset + 1, next, offset2mistake)

\* the loop that ends a highlight after the character at endoffset
RECURSIVE AugmentLate(_, _, _, _)
AugmentLate(text, offset, endoffset, offset2mistake) ==
    IF offset >= Len(text) THEN <<>>
    ELSE LET ends == offset = endoffset
             starts == offset \in DOMAIN offset2mistake
             next == IF starts THEN offset + Len(offset2mistake[offset].word)
                     ELSE IF ends THEN -1 ELSE endoffset
         IN  (IF starts THEN <<HighlightOn>> ELSE <<>>)
                \o <<text[offset + 1]>>
                \o (IF ends THEN <<HighlightOff>> ELSE <<>>)
                \o AugmentLate(text, offset + 1, next, offset2mistake)

\* lines 205-215: the loop over the characters of l + '\n', from `offset` on
RECURSIVE AugmentLoop(_, _, _, _)
AugmentLoop(text, offset, endoffset, offset2mistake) ==
    IF offset >= Len(text) THEN <<>>
    ELSE LET ends == offset = endoffset
             starts == offset \in DOMAIN offset2mistake
             next == IF starts THEN offset + Len(offset2mistake[offset].word)
                     ELSE IF ends THEN -1 ELSE endoffset
         IN  (IF ends THEN <<HighlightOff>> ELSE <<>>)
                \o (IF starts THEN <<HighlightOn>> ELSE <<>>)
                \o <<text[offset + 1]>>
                \o AugmentLoop(text, offset + 1, next, offset2mistake)

\* lines 194-216: what is printed for line n (0-based)
AugmentedLine(lines, line2mistakes, n) ==
    LET l == lines[n + 1]
    IN  IF n \notin DOMAIN line2mistakes THEN l \o <<"\n">>
        ELSE AugmentLoop(l \o <<"\n">>, 0, -1, Offset2Mistake(line2mistakes[n]))

output_augmented_input ==
    /\ rn_state = "start"
    /\ rn_out' = [i \in 1..Len(rn_lines) |->
                    AugmentedLine(rn_lines, Line2Mistakes(rn_mistakes), i - 1)]
    /\ rn_state' = "augmented"
    /\ UNCHANGED <<rn_lines, rn_mistakes>>
    /\ UNCHANGED notRender

\* lines[mistake['line']] raises IndexError
LineRaises(lines, mistake) == mistake.line >= Len(lines) \/ mistake.line < -Len(lines)

\* lines 152-160: the two lines printed for a mistake, offset >= 0
ContextLines(lines, mistake) ==
    LET l == PyIndex(lines, mistake.line)
        prefix == file_name \o <<":">> \o PyStr(mistake.line) \o <<":">>
        indent == Len(prefix) + mistake.offset
        end == mistake.offset + Len(mistake.word)
    IN  << prefix \o PySlice(l, 0, mistake.offset) \o <<HighlightOn>>
              \o PySlice(l, mistake.offset, end) \o <<HighlightOff>>
              \o PySlice(l, end, Len(l)) \o <<"\n">>,
           [i \in 1..indent |-> " "] \o <<HighlightOn>>
              \o [i \in 1..Len(mistake.word) |-> "~"] \o <<HighlightOff, "\n">> >>

\* what pretty_print_mistake prints for the mistakes up to the first that raises
RECURSIVE ListOutput(_, _)
ListOutput(lines, mistakes) ==
    IF mistakes = <<>> \/ LineRaises(lines, mistakes[1]) THEN <<>>
    ELSE ContextLines(lines, mistakes[1]) \o ListOutput(lines, Tail(mistakes))

output_mistake_list ==
    /\ rn_state = "start"
    /\ rn_out' = ListOutput(rn_lines, rn_mistakes)
    /\ rn_state' = IF \E i \in 1..Len(rn_mistakes) : LineRaises(rn_lines, rn_mistakes[i])
                   THEN "raised" ELSE "list"
    /\ UNCHANGED <<rn_lines, rn_mistakes>>
    /\ UNCHANGED notRender

RenderNext ==
    \/ output_augmented_input
    \/ output_mistake_list

SpecRender == RenderInit /\ [][RenderNext]_vars

\* a printed text without its markers
RECURSIVE StripMarkers(_)
StripMarkers(text) ==
    IF text = <<>> THEN <<>>
    ELSE (IF IsMarker(text[1]) THEN <<>> ELSE <<text[1]>>) \o StripMarkers(Tail(text))

RECURSIVE Concat(_)
Concat(texts) == IF texts = <<>> THEN <<>> ELSE texts[1] \o Concat(Tail(texts))

\* C8: without its markers the output of output_augmented_input is the
\* lines of the document in order, each followed by one newline.
C8_AugmentedRoundTrip ==
    rn_state = "augmented" =>
        StripMarkers(Concat(rn_out))
            = Concat([i \in 1..Len(rn_lines) |-> rn_lines[i] \o <<"\n">>])

\* two mistakes on a line of seven characters, highlighted in the output
C8_Witness ==
    /\ rn_state = "augmented"
    /\ Len(rn_lines) = 2
    /\ Len(rn_lines[1]) = 7
    /\ Len(rn_mistakes) = 2
    /\ rn_mistakes[1].line = 0
    /\ rn_mistakes[2].line = 0
    /\ rn_mistakes[1].offset # rn_mistakes[2].offset
    /\ \E i \in 1..Len(rn_out[1]) : rn_out[1][i] = HighlightOn
    /\ \E i \in 1..Len(rn_out[1]) : rn_out[1][i] = HighlightOff

\* the place in a printed text of the character at `offset` of its line
CharAt(text, offset) ==
    CHOOSE i \in 1..Len(text) :
        /\ ~IsMarker(text[i])
        /\ Cardinality({j \in 1..(i - 1) : ~IsMarker(text[j])}) = offset

\* how many markers `marker` stand immediately before that character
MarkersBefore(text, offset, marker) ==
    LET i == CharAt(text, offset)
    IN  Cardinality({j \in 1..(i - 1) :
            /\ text[j] = marker
            /\ \A k \in j..(i - 1) : IsMarker(text[k])})

Count(text, marker) == Cardinality({j \in 1..Len(text) : text[j] = marker})

\* the mistakes on line n (0-based)
MistakesOn(n) == {i \in 1..Len(rn_mistakes) : rn_mistakes[i].line = n}

SpanEnd(i) == rn_mistakes[i].offset + Len(rn_mistakes[i].word)

\* distinct start offsets, and every span within the line
DistinctWithin(n) ==
    /\ \A i, j \in MistakesOn(n) : i # j => rn_mistakes[i].offset # rn_mistakes[j].offset
    /\ \A i \in MistakesOn(n) : SpanEnd(i) <= Len(rn_lines[n + 1])

\* no word is empty and no two spans share a character
Disjoint(n) ==
    /\ \A i \in MistakesOn(n) : Len(rn_mistakes[i].word) > 0
    /\ \A i, j \in MistakesOn(n) :
        i # j => SpanEnd(i) <= rn_mistakes[j].offset \/ SpanEnd(j) <= rn_mistakes[i].offset

\* one highlight-on marker right before the character at each start, one
\* highlight-off marker right before the character at each end, and as many
\* markers of each kind as there are mistakes on the line
Paired(n) ==
    /\ \A i \in MistakesOn(n) :
        /\ MarkersBefore(rn_out[n + 1], rn_mistakes[i].offset, HighlightOn) = 1
        /\ MarkersBefore(rn_out[n + 1], SpanEnd(i), HighlightOff) = 1
    /\ Count(rn_out[n + 1], HighlightOn) = Cardinality(MistakesOn(n))
    /\ Count(rn_out[n + 1], HighlightOff) = Cardinality(MistakesOn(n))

\* C7 as stated: on every line whose mistakes have distinct start offsets
\* and spans within the line, each mistake gets exactly one highlight-on
\* marker before the character at its start and one highlight-off marker
\* before the character at its end: k mistakes, k pairs.
C7_HighlightPairing ==
    rn_state = "augmented" =>
        \A n \in 0..(Len(rn_lines) - 1) : DistinctWithin(n) => Paired(n)

\* C7 as amended: the same, for mistakes whose words are not empty and whose
\* spans do not overlap.
C7_HighlightPairingDisjoint ==
    rn_state = "augmented" =>
        \A n \in 0..(Len(rn_lines) - 1) : (DistinctWithin(n) /\ Disjoint(n)) => Paired(n)

\* mistakes at offsets 0 and 5 of one line, two characters each: two pairs
C7_Witness ==
    /\ rn_state = "augmented"
    /\ Len(rn_lines) >= 1
    /\ MistakesOn(0) = {1, 2}
    /\ rn_mistakes[1].offset = 0
    /\ rn_mistakes[2].offset = 5
    /\ DistinctWithin(0)
    /\ Disjoint(0)
    /\ Count(rn_out[1], HighlightOn) = 2
    /\ Count(rn_out[1], HighlightOff) = 2

\* a mistake whose line is no line of the document, or whose span is not
\* within its line
OutOfBounds(mistake) ==
    \/ mistake.line < 0
    \/ mistake.line >= Len(rn_lines)
    \/ mistake.offset < 0
    \/ mistake.offset + Len(mistake.word) > Len(rn_lines[mistake.line + 1])

\* C10: a renderer handed an out-of-bounds mistake ends in an error.
C10_OutOfBoundsSurfaced ==
    (\E i \in 1..Len(rn_mistakes) : OutOfBounds(rn_mistakes[i])) =>
        rn_state \in {"idle", "start", "raised"}

(***************************************************************************)
(* main and check_file                                                     *)
(*                                                                         *)
(* A file is what the loop needs to know of it: whether its name ends in   *)
(* .pdf, how many mistakes the backend yields for it, and where check_file *)
(* raises, if it does: in the backend (a reply line that does not parse, a *)
(* response json.loads rejects) or in the output function.                 *)
(***************************************************************************)

\* the most files of a run and the most mistakes of a file
MaxFiles == 3

MaxMistakes == 1

FileSet ==
    [pdf : BOOLEAN, fault : {"none", "backend", "render"}, mistakes : 0..MaxMistakes]

\* a run with --files
Init ==
    /\ files \in SeqsUpTo(FileSet, MaxFiles) \ {<<>>}
    /\ exit_code \in BOOLEAN
    /\ file_pos = 1
    /\ count = 0
    /\ pdfproc = [i \in 1..Len(files) |-> "none"]
    /\ file_handle = [i \in 1..Len(files) |-> "none"]
    /\ visited = {}
    /\ rendered = {}
    /\ main_state = "loop"
    /\ AspellIdle
    /\ LtIdle
    /\ SuggIdle
    /\ RenderIdle

AtFile == main_state = "loop" /\ file_pos <= Len(files)

\* lines 284-286: pdfproc = subprocess.Popen(pdf2text_cmd, ...)
SpawnPdf ==
    /\ AtFile
    /\ files[file_pos].pdf
    /\ pdfproc' = [pdfproc EXCEPT ![file_pos] = "running"]
    /\ main_state' = "check"
    /\ UNCHANGED <<files, exit_code, file_pos, count, file_handle, visited, rendered>>
    /\ UNCHANGED notMain

\* line 291: with open(filename, 'r') as file_handle
OpenFile ==
    /\ AtFile
    /\ ~files[file_pos].pdf
    /\ file_handle' = [file_handle EXCEPT ![file_pos] = "open"]
    /\ main_state' = "check"
    /\ UNCHANGED <<files, exit_code, file_pos, count, pdfproc, visited, rendered>>
    /\ UNCHANGED notMain

\* check_file returns len(mistakes): count += ...
CheckFileReturns ==
    /\ main_state = "check"
    /\ files[file_pos].fault = "none"
    /\ visited' = visited \cup {file_pos}
    /\ rendered' = rendered \cup {file_pos}
    /\ count' = count + files[file_pos].mistakes
    /\ main_state' = "release"
    /\ UNCHANGED <<files, exit_code, file_pos, pdfproc, file_handle>>
    /\ UNCHANGED notMain

\* check_file raises: no try in check_file or in main catches it.  The with
\* statement closes a file opened at line 291 on the way out; nothing is
\* done about pdfproc.
CheckFileRaises ==
    /\ main_state = "check"
    /\ files[file_pos].fault # "none"
    /\ visited' = visited \cup {file_pos}
    /\ file_handle' = [file_handle EXCEPT
            ![file_pos] = IF files[file_pos].pdf THEN @ ELSE "closed"]
    /\ main_state' = "raised"
    /\ UNCHANGED <<files, exit_code, file_pos, count, pdfproc, rendered>>
    /\ UNCHANGED notMain

\* lines 288-289: pdfproc.terminate(); pdfproc.wait()
ReleasePdf ==
    /\ main_state = "release"
    /\ files[file_pos].pdf
    /\ pdfproc' = [pdfproc EXCEPT ![file_pos] = "released"]
    /\ file_pos' = file_pos + 1
    /\ main_state' = "loop"
    /\ UNCHANGED <<files, exit_code, count, file_handle, visited, rendered>>
    /\ UNCHANGED notMain

\* the end of the with block
CloseFile ==
    /\ main_state = "release"
    /\ ~files[file_pos].pdf
    /\ file_handle' = [file_handle EXCEPT ![file_pos] = "closed"]
    /\ file_pos' = file_pos + 1
    /\ main_state' = "loop"
    /\ UNCHANGED <<files, exit_code, count, pdfproc, visited, rendered>>
    /\ UNCHANGED notMain

\* lines 293-295: what main returns
ExitStatus == IF count > 0 /\ exit_code THEN 1 ELSE 0

\* the for loop is over: main returns ExitStatus
MainReturns ==
    /\ main_state = "loop"
    /\ file_pos > Len(files)
    /\ main_state' = "returned"
    /\ UNCHANGED <<files, exit_code, file_pos, count, pdfproc, file_handle, visited, rendered>>
    /\ UNCHANGED notMain

Next ==
    \/ SpawnPdf
    \/ OpenFile
    \/ CheckFileReturns
    \/ CheckFileRaises
    \/ ReleasePdf
    \/ CloseFile
    \/ MainReturns

Spec == Init /\ [][Next]_vars

Ended == main_state \in {"returned", "raised"}

\* C4: in a run over several files, when checking a file fails the files
\* after it are still checked and the run reaches its normal end: a run
\* that has ended has returned from main, with check_file called for every
\* file and every file without a fault rendered.
C4_FaultIsolation ==
    (Ended /\ Len(files) >= 2) =>
        /\ main_state = "returned"
        /\ visited = 1..Len(files)
        /\ \A i \in 1..Len(files) : files[i].fault = "none" => i \in rendered

\* C5: a PDF-to-text subprocess runs only while main is at its file: once
\* main has moved on to another file or has ended, it has been terminated
\* and waited on.
C5_SubprocessReleased ==
    \A i \in 1..Len(files) :
        pdfproc[i] = "running" => (file_pos = i /\ ~Ended)

====
